---- MODULE Spec2Model ----
(***************************************************************************)
(* EC2 idle auto-shutdown (lambda/src/ec2_shutdown.py).                    *)
(*                                                                         *)
(* One invocation of lambda_handler as a state machine: the inventory      *)
(* query, the per-instance loop (eligibility filter, optional detailed     *)
(* monitoring with its fixed wait, idle evaluation), the shutdown loop and *)
(* the returned result.  The AWS APIs are the environment: each call's     *)
(* outcome (a failure, or a response) is chosen nondeterministically.      *)
(*                                                                         *)
(* Units: time in seconds; CPU averages in tenths of a percent.            *)
(* Strings that the code lower-cases are sequences of one-character        *)
(* strings, so that str.lower() is computed and not assumed.               *)
(***************************************************************************)
EXTENDS Integers, Sequences, FiniteSets, TLC

(* ------------------------------ bounds --------------------------------- *)

\* Largest inventory the inventory query returns in the model.
MaxInstances == 2

\* Largest number of datapoints a telemetry response holds in the model.
MaxDatapoints == 37

(* ------------------------- configuration ------------------------------- *)

\* CPU_THRESHOLD = 1.0 percent, in tenths of a percent.
CPU_THRESHOLD == 10

IDLE_DURATION_HOURS == 3

EXCLUDED_INSTANCE_TYPES == << <<"p">>, <<"g">> >>

\* Period=300 of the telemetry query.
Period == 300

\* time_diff > 360 records a gap.
GapThreshold == 360

\* max_allowed_gap = 600.
max_allowed_gap == 600

\* The 30 minutes buffer (0.5 hours) added to IDLE_DURATION_HOURS.
BufferSeconds == 1800

\* None, and the empty default of dict.get(key, '').
None == << >>

(* --------------------------- pure helpers ------------------------------ *)

\* str.lower() on one character.
LowerChar(c) ==
    CASE c = "P" -> "p"
      [] c = "G" -> "g"
      [] c = "T" -> "t"
      [] c = "N" -> "n"
      [] c = "O" -> "o"
      [] c = "Y" -> "y"
      [] c = "E" -> "e"
      [] c = "S" -> "s"
      [] OTHER -> c

\* str.lower()
Lower(s) == [i \in 1..Len(s) |-> LowerChar(s[i])]

\* str.startswith(prefix)
StartsWith(s, prefix) ==
    /\ Len(s) >= Len(prefix)
    /\ SubSeq(s, 1, Len(prefix)) = prefix

\* {tag['Key']: tag['Value'] for tag in tags}.get(key, default): the last
\* entry with the key wins, as in a dict comprehension.
TagsGet(tags, key, default) ==
    LET hits == {i \in 1..Len(tags) : tags[i].Key = key}
    IN  IF hits = {} THEN default
        ELSE tags[CHOOSE i \in hits : \A j \in hits : j <= i].Value

\* should_skip_instance comparing the type and the tag value as written,
\* without lower().
should_skip_instance_CaseSensitive(instance) ==
    LET instance_type == instance.InstanceType
        excluded == \E k \in 1..Len(EXCLUDED_INSTANCE_TYPES) :
                       StartsWith(instance_type, EXCLUDED_INSTANCE_TYPES[k])
        shutdown_tag == TagsGet(instance.Tags, "Shutdown", None)
    IN  IF excluded
        THEN <<"Instance type ", instance_type, " is excluded (P/G type)">>
        ELSE IF shutdown_tag = <<"n", "o">>
             THEN <<"Instance has 'Shutdown=No' tag">>
             ELSE None

\* should_skip_instance: the skip reason, or None.
should_skip_instance(instance) ==
    LET instance_type == instance.InstanceType
        excluded == \E k \in 1..Len(EXCLUDED_INSTANCE_TYPES) :
                       StartsWith(Lower(instance_type), EXCLUDED_INSTANCE_TYPES[k])
        shutdown_tag == Lower(TagsGet(instance.Tags, "Shutdown", None))
    IN  IF excluded
        THEN <<"Instance type ", instance_type, " is excluded (P/G type)">>
        ELSE IF shutdown_tag = <<"n", "o">>
             THEN <<"Instance has 'Shutdown=No' tag">>
             ELSE None

\* expected_datapoints = int(IDLE_DURATION_HOURS * 12)
expected_datapoints == IDLE_DURATION_HOURS * 12

\* min_required_datapoints = int(expected_datapoints * 0.9)
min_required_datapoints == (expected_datapoints * 9) \div 10

\* timedelta(hours=IDLE_DURATION_HOURS + 0.5), in seconds.
required_runtime == IDLE_DURATION_HOURS * 3600 + BufferSeconds

\* The launch floor without the 30 minutes buffer.
TooYoung_NoBuffer(time_since_launch) ==
    time_since_launch < IDLE_DURATION_HOURS * 3600

\* time_since_launch < timedelta(hours=required_runtime_hours)
TooYoung(time_since_launch) == time_since_launch < required_runtime

\* The length of the telemetry window: from launch when the instance was
\* launched within the standard lookback, else the standard lookback.
MetricsWindow(time_since_launch) ==
    LET standard == IDLE_DURATION_HOURS * 3600
    IN  IF time_since_launch < standard THEN time_since_launch ELSE standard

\* Insertion of one datapoint into a list sorted by Timestamp, after the
\* entries with an equal Timestamp (list.sort is stable).
InsertSorted(dp, s) ==
    LET k == Cardinality({i \in 1..Len(s) : s[i].Timestamp <= dp.Timestamp})
    IN  SubSeq(s, 1, k) \o <<dp>> \o SubSeq(s, k + 1, Len(s))

\* datapoints.sort(key=lambda x: x['Timestamp'])
RECURSIVE SortByTimestamp(_)
SortByTimestamp(s) ==
    IF s = << >> THEN << >>
    ELSE InsertSorted(s[Len(s)], SortByTimestamp(SubSeq(s, 1, Len(s) - 1)))

\* The recorded gaps: every consecutive difference above 360 seconds.
time_gaps(sorted) ==
    LET idx == {i \in 2..Len(sorted) :
                   sorted[i].Timestamp - sorted[i-1].Timestamp > GapThreshold}
    IN  [i \in idx |-> sorted[i].Timestamp - sorted[i-1].Timestamp]

RECURSIVE SumOver(_, _)
SumOver(f, S) ==
    IF S = {} THEN 0
    ELSE LET x == CHOOSE y \in S : TRUE IN f[x] + SumOver(f, S \ {x})

\* total_gap_time = sum(time_gaps)
total_gap_time(sorted) == SumOver(time_gaps(sorted), DOMAIN time_gaps(sorted))

\* The gap check summing each gap's excess over the 5-minute cadence.
GapsTooLarge_Excess(sorted) ==
    /\ DOMAIN time_gaps(sorted) # {}
    /\ total_gap_time(sorted) - Period * Cardinality(DOMAIN time_gaps(sorted))
          > max_allowed_gap

\* if time_gaps: ... if total_gap_time > max_allowed_gap: return False
GapsTooLarge(sorted) ==
    /\ DOMAIN time_gaps(sorted) # {}
    /\ total_gap_time(sorted) > max_allowed_gap

\* datapoints[-expected_datapoints:] if len(datapoints) >= expected_datapoints
\* else datapoints
recent_datapoints(sorted) ==
    IF Len(sorted) >= expected_datapoints
    THEN SubSeq(sorted, Len(sorted) - expected_datapoints + 1, Len(sorted))
    ELSE sorted

\* The count with a strict comparison against the threshold.
idle_count_Strict(recent) ==
    Cardinality({i \in 1..Len(recent) : recent[i].Average < CPU_THRESHOLD})

\* sum(1 for dp in recent_datapoints if dp['Average'] <= CPU_THRESHOLD)
idle_count(recent) ==
    Cardinality({i \in 1..Len(recent) : recent[i].Average <= CPU_THRESHOLD})

\* idle_percentage == 100, with idle_percentage = idle_count / len * 100:
\* for idle_count < len the quotient is below 1 and the product below 100.
AllIdle(recent) == idle_count(recent) * 100 = 100 * Len(recent)

\* The classification without the minimum-count check.
ClassifyDatapoints_NoMinimum(sorted) ==
    IF sorted = << >> THEN FALSE
    ELSE IF GapsTooLarge(sorted) THEN FALSE
    ELSE AllIdle(recent_datapoints(sorted))

\* is_instance_idle from the sorted datapoints on: the sufficiency checks,
\* the trim and the classification.
ClassifyDatapoints(sorted) ==
    IF sorted = << >> THEN FALSE
    ELSE IF Len(sorted) < min_required_datapoints THEN FALSE
    ELSE IF GapsTooLarge(sorted) THEN FALSE
    ELSE AllIdle(recent_datapoints(sorted))


(* ------------------------ the environment's answers -------------------- *)

\* The kinds of instance the inventory may hold: type and tags.
Kind(type, tags) == [InstanceType |-> type, Tags |-> tags]

Tag(key, value) == [Key |-> key, Value |-> value]

InstancePool ==
    { Kind(<<"t", "3">>, << >>),
      Kind(<<"t", "p">>, << Tag("shutdown", <<"n", "o">>) >>),
      Kind(<<"P", "3">>, << >>),
      Kind(<<"g", "4">>, << Tag("Shutdown", <<"N", "O">>) >>),
      Kind(<<"t", "3">>, << Tag("Shutdown", <<"N", "o">>) >>),
      Kind(<<"t", "3">>, << Tag("Name", <<"g">>), Tag("Shutdown", <<"n", "O">>) >>) }

\* The Monitoring.State values of describe_instances, "error" for a raised
\* exception and "empty" for a response without reservations.
DescribeMonitoringOutcomes ==
    {"error", "empty", "disabled", "disabling", "enabled", "pending"}

\* monitor_instances and stop_instances: success or a raised exception.
CallOutcomes == {"ok", "error"}

\* One datapoint of a telemetry response.
Datapoint(ts, avg) == [Timestamp |-> ts, Average |-> avg]

\* A response of n datapoints, 5 minutes apart except for the first interval
\* (gapFirst) and the last one (gapLast), every Average equal to base except
\* the one at abovePos (0: none), which is just above the threshold.
Datapoints(n, base, abovePos, gapFirst, gapLast) ==
    [i \in 1..n |->
        Datapoint((i - 1) * Period
                    + (IF i >= 2 THEN gapFirst - Period ELSE 0)
                    + (IF i = n /\ n >= 3 THEN gapLast - Period ELSE 0),
                  IF i = abovePos THEN CPU_THRESHOLD + 1 ELSE base)]

\* The telemetry source returns datapoints in no particular order.
Reverse(s) == [i \in 1..Len(s) |-> s[Len(s) + 1 - i]]

OkResponse(dps) == [ok |-> TRUE, Datapoints |-> dps]

ErrorResponse == [ok |-> FALSE, Datapoints |-> << >>]

\* Distances between consecutive datapoints the telemetry source may leave.
GapLengths == {Period, 400, 600, 700, 1000}

\* The numbers of datapoints a response of the idle-evaluation
\* specification may hold.
ResponseLengths ==
    {0, 1} \cup ((min_required_datapoints - 1)..MaxDatapoints)

\* The telemetry responses of the handler specification.
HandlerResponses ==
    { ErrorResponse,
      OkResponse(<< >>),
      OkResponse(Datapoints(min_required_datapoints - 1, CPU_THRESHOLD, 0, Period, Period)),
      OkResponse(Datapoints(min_required_datapoints, CPU_THRESHOLD, 0, Period, Period)),
      OkResponse(Datapoints(expected_datapoints, CPU_THRESHOLD, 1, Period, Period)),
      OkResponse(Datapoints(expected_datapoints, 0, 0, Period, 700)) }

\* describe_instances inside is_instance_idle: a raised exception, a
\* response without reservations or LaunchTime, or the time since launch.
LaunchOutcome(status, age) == [status |-> status, age |-> age]

LaunchOutcomes ==
    { LaunchOutcome("error", 0), LaunchOutcome("empty", 0) } \cup
    { LaunchOutcome("ok", age) :
        age \in {3600, required_runtime - 1, required_runtime} }

\* The answers of describe_instances in the handler specification.
HandlerLaunchOutcomes ==
    { LaunchOutcome("error", 0), LaunchOutcome("empty", 0),
      LaunchOutcome("ok", 3600), LaunchOutcome("ok", required_runtime - 1),
      LaunchOutcome("ok", required_runtime) }

(* ------------------------------- state --------------------------------- *)

VARIABLES
    DRY_RUN,                     \* os.environ DRY_RUN
    ENABLE_DETAILED_MONITORING,  \* os.environ ENABLE_DETAILED_MONITORING
    pc,                          \* position in lambda_handler
    instances,                   \* get_running_instances()
    idx,                         \* position of the for loop over instances
    skipped_instances,
    shutdown_candidates,
    shutdown_results,
    response,                    \* the returned value, once pc = "done"
    monitoring_enabled,          \* lambda_handler's local, line 66
    eval,                        \* the last activation of is_instance_idle
    calls,                       \* the commands issued: <<name, instance_id>>
    error_log                    \* logger.error records: <<where, instance_id>>

vars == << DRY_RUN, ENABLE_DETAILED_MONITORING, pc, instances, idx,
           skipped_instances, shutdown_candidates, shutdown_results, response,
           monitoring_enabled, eval, calls, error_log >>

config == << DRY_RUN, ENABLE_DETAILED_MONITORING >>

NoResponse == [statusCode |-> 0]

\* No activation of is_instance_idle yet.
NoEval ==
    [instance_id |-> 0, launch |-> LaunchOutcome("empty", 0), queried |-> FALSE,
     window |-> 0, telemetry_ok |-> FALSE, datapoints |-> << >>,
     result |-> FALSE]

Init ==
    /\ DRY_RUN \in BOOLEAN
    /\ ENABLE_DETAILED_MONITORING \in BOOLEAN
    /\ pc = "start"
    /\ instances = << >>
    /\ idx = 1
    /\ skipped_instances = << >>
    /\ shutdown_candidates = << >>
    /\ shutdown_results = << >>
    /\ response = NoResponse
    /\ monitoring_enabled = FALSE
    /\ eval = NoEval
    /\ calls = {}
    /\ error_log = {}


(* --------------------------- the functions ----------------------------- *)

\* enable_detailed_monitoring_if_needed, given what describe_instances and
\* monitor_instances answer: the returned value, whether monitor_instances
\* was called, and whether the except clause logged an error.
enable_detailed_monitoring_if_needed(enabled_flag, dry_run, describe, monitor) ==
    IF ~enabled_flag
    THEN [result |-> FALSE, requested |-> FALSE, error |-> FALSE]
    ELSE IF describe = "error"
    THEN [result |-> FALSE, requested |-> FALSE, error |-> TRUE]
    ELSE IF describe = "disabled"
    THEN IF ~dry_run
         THEN IF monitor = "error"
              THEN [result |-> FALSE, requested |-> TRUE, error |-> TRUE]
              ELSE [result |-> TRUE, requested |-> TRUE, error |-> FALSE]
         ELSE [result |-> TRUE, requested |-> FALSE, error |-> FALSE]
    ELSE [result |-> FALSE, requested |-> FALSE, error |-> FALSE]

\* is_instance_idle, given what describe_instances and get_metric_statistics
\* answer: the activation's locals, the returned value (result), whether the
\* telemetry query was issued, and whether the except clause logged an error.
is_instance_idle(instance_id, launch, telemetry) ==
    LET base == [instance_id |-> instance_id, launch |-> launch,
                 queried |-> FALSE, window |-> 0, telemetry_ok |-> FALSE,
                 datapoints |-> << >>, result |-> FALSE]
    IN  IF launch.status # "ok" THEN base
        ELSE IF TooYoung(launch.age) THEN base
        ELSE IF ~telemetry.ok
        THEN [base EXCEPT !.queried = TRUE, !.window = MetricsWindow(launch.age)]
        ELSE LET sorted == SortByTimestamp(telemetry.Datapoints)
             IN  [base EXCEPT !.queried = TRUE,
                              !.window = MetricsWindow(launch.age),
                              !.telemetry_ok = TRUE,
                              !.datapoints = sorted,
                              !.result = ClassifyDatapoints(sorted)]

\* Whether the activation ended in the except clause of is_instance_idle.
EvalFailed(e) ==
    \/ e.launch.status = "error"
    \/ e.queried /\ ~e.telemetry_ok

\* The outcome record shutdown_instance returns.
Outcome(instance, name, action, status, message) ==
    [instance_id |-> instance.InstanceId,
     instance_type |-> instance.InstanceType,
     instance_name |-> name,
     action |-> action, status |-> status, message |-> message]

\* shutdown_instance without the dry-run branch.
shutdown_instance_IgnoresDryRun(instance, dry_run, stop) ==
    IF stop = "ok"
    THEN [outcome |-> Outcome(instance,
                              TagsGet(instance.Tags, "Name", <<"Unnamed">>),
                              "shutdown", "success",
                              "Shutdown initiated successfully"),
          stopped |-> TRUE, error |-> FALSE]
    ELSE [outcome |-> Outcome(instance, None, "shutdown", "error",
                              "Failed to shutdown instance"),
          stopped |-> TRUE, error |-> TRUE]

\* shutdown_instance whose except clause logs the error and still returns
\* the success record.
shutdown_instance_SwallowsError(instance, dry_run, stop) ==
    IF dry_run
    THEN [outcome |-> Outcome(instance, None, "dry_run", "success",
                              "Would be shut down (dry run mode)"),
          stopped |-> FALSE, error |-> FALSE]
    ELSE [outcome |-> Outcome(instance,
                              TagsGet(instance.Tags, "Name", <<"Unnamed">>),
                              "shutdown", "success",
                              "Shutdown initiated successfully"),
          stopped |-> TRUE, error |-> stop # "ok"]

\* shutdown_instance, given what stop_instances answers: the outcome record,
\* whether stop_instances was called, and whether the except clause logged
\* an error.  The dry-run and the error records carry no instance_name.
shutdown_instance(instance, dry_run, stop) ==
    IF dry_run
    THEN [outcome |-> Outcome(instance, None, "dry_run", "success",
                              "Would be shut down (dry run mode)"),
          stopped |-> FALSE, error |-> FALSE]
    ELSE IF stop = "ok"
    THEN [outcome |-> Outcome(instance,
                              TagsGet(instance.Tags, "Name", <<"Unnamed">>),
                              "shutdown", "success",
                              "Shutdown initiated successfully"),
          stopped |-> TRUE, error |-> FALSE]
    ELSE [outcome |-> Outcome(instance, None, "shutdown", "error",
                              "Failed to shutdown instance"),
          stopped |-> TRUE, error |-> TRUE]

\* The success summary without the list of skipped instances.
SuccessResponse_NoSkips(insts, skipped, results, dry_run) ==
    [statusCode |-> 200,
     body |-> [message |-> "EC2 auto-shutdown completed successfully",
               total_instances_evaluated |-> Len(insts),
               instances_skipped |-> 0,
               instances_shutdown |-> Len(results),
               dry_run |-> dry_run,
               skipped_instances |-> << >>,
               shutdown_results |-> results]]

\* The success summary of lambda_handler.
SuccessResponse(insts, skipped, results, dry_run) ==
    [statusCode |-> 200,
     body |-> [message |-> "EC2 auto-shutdown completed successfully",
               total_instances_evaluated |-> Len(insts),
               instances_skipped |-> Len(skipped),
               instances_shutdown |-> Len(results),
               dry_run |-> dry_run,
               skipped_instances |-> skipped,
               shutdown_results |-> results]]

\* The except clause of lambda_handler returning the success status code.
FailureResponse_Status200(err) ==
    [statusCode |-> 200,
     body |-> [error |-> err, message |-> "EC2 auto-shutdown failed"]]

\* The top-level failure result of lambda_handler.
FailureResponse(err) ==
    [statusCode |-> 500,
     body |-> [error |-> err, message |-> "EC2 auto-shutdown failed"]]

(* ------------------------------ actions -------------------------------- *)

\* Where lambda_handler stands once the loop index is i.
LoopPc(i, insts) == IF i <= Len(insts) THEN "loop" ELSE "shutdown"

\* The inventories the inventory query may return.
Inventories ==
    UNION { { [i \in 1..n |-> [InstanceId |-> i,
                               InstanceType |-> kinds[i].InstanceType,
                               Tags |-> kinds[i].Tags]] :
                kinds \in [1..n -> InstancePool] } :
            n \in 0..MaxInstances }

\* get_running_instances succeeds: the loop starts.
GetRunningInstances ==
    /\ pc = "start"
    /\ \E insts \in Inventories :
          /\ instances' = insts
          /\ pc' = LoopPc(1, insts)
    /\ UNCHANGED << config, idx, skipped_instances, shutdown_candidates,
                    shutdown_results, response, monitoring_enabled, eval,
                    calls, error_log >>

\* describe_instances raises in get_running_instances: the exception is
\* logged, re-raised, and caught by lambda_handler's except clause.
InventoryFailure ==
    /\ pc = "start"
    /\ error_log' = error_log \cup {<<"get_running_instances", 0>>,
                                    <<"lambda_handler", 0>>}
    /\ response' = FailureResponse("describe_instances failed")
    /\ pc' = "done"
    /\ UNCHANGED << config, instances, idx, skipped_instances,
                    shutdown_candidates, shutdown_results,
                    monitoring_enabled, eval, calls >>

\* Lines 51-63: the eligibility filter returns a reason; record and continue.
SkipInstance ==
    /\ pc = "loop"
    /\ LET instance == instances[idx]
           skip_reason == should_skip_instance(instance)
       IN  /\ skip_reason # None
           /\ skipped_instances' =
                Append(skipped_instances,
                       [instance_id |-> instance.InstanceId,
                        instance_type |-> instance.InstanceType,
                        reason |-> skip_reason])
    /\ idx' = idx + 1
    /\ pc' = LoopPc(idx + 1, instances)
    /\ UNCHANGED << config, instances, shutdown_candidates, shutdown_results,
                    response, monitoring_enabled, eval, calls, error_log >>

\* Lines 51-69: the instance is eligible; enable detailed monitoring if
\* needed and, when that returned True, sleep 60 seconds.
EnableMonitoring ==
    /\ pc = "loop"
    /\ should_skip_instance(instances[idx]) = None
    /\ \E describe \in DescribeMonitoringOutcomes, monitor \in CallOutcomes :
          LET id == instances[idx].InstanceId
              r == enable_detailed_monitoring_if_needed(
                       ENABLE_DETAILED_MONITORING, DRY_RUN, describe, monitor)
          IN  /\ monitoring_enabled' = r.result
              /\ calls' = calls
                    \cup (IF r.requested THEN {<<"monitor_instances", id>>} ELSE {})
                    \cup (IF r.result THEN {<<"sleep", id>>} ELSE {})
              /\ error_log' = error_log
                    \cup (IF r.error
                          THEN {<<"enable_detailed_monitoring_if_needed", id>>}
                          ELSE {})
    /\ pc' = "check_cpu"
    /\ UNCHANGED << config, instances, idx, skipped_instances,
                    shutdown_candidates, shutdown_results, response, eval >>

\* Whether is_instance_idle reaches the telemetry query: only then does
\* get_metric_statistics answer anything.
QueryIssued(launch) == launch.status = "ok" /\ ~TooYoung(launch.age)

\* Lines 71-76: is_instance_idle on the current instance, given the answers
\* of the two queries; an idle instance becomes a shutdown candidate.
Evaluate(launch, telemetry) ==
    \E e \in {is_instance_idle(instances[idx].InstanceId, launch, telemetry)} :
        /\ eval' = e
        /\ calls' = calls
              \cup (IF e.queried
                    THEN {<<"get_metric_statistics", e.instance_id>>}
                    ELSE {})
        /\ error_log' = error_log
              \cup (IF EvalFailed(e)
                    THEN {<<"is_instance_idle", e.instance_id>>}
                    ELSE {})
        /\ shutdown_candidates' =
              IF e.result THEN Append(shutdown_candidates, instances[idx])
              ELSE shutdown_candidates
        /\ idx' = idx + 1
        /\ pc' = LoopPc(idx + 1, instances)
        /\ UNCHANGED << config, instances, skipped_instances,
                        shutdown_results, response, monitoring_enabled >>

\* The evaluation step of the handler specification.
HandlerIdle ==
    /\ pc = "check_cpu"
    /\ \E launch \in HandlerLaunchOutcomes :
       \E telemetry \in (IF QueryIssued(launch) THEN HandlerResponses
                         ELSE {ErrorResponse}) :
          Evaluate(launch, telemetry)

\* The evaluation step of the idle-evaluation specification: every response
\* shape within the bounds, delivered in ascending or descending order.
FullIdle ==
    /\ pc = "check_cpu"
    /\ \E launch \in LaunchOutcomes :
       \E ok \in (IF QueryIssued(launch) THEN BOOLEAN ELSE {FALSE}) :
       \E n \in (IF ok THEN ResponseLengths ELSE {0}) :
       \E base \in (IF ok THEN {0, CPU_THRESHOLD} ELSE {0}) :
       \E a \in 0..n :
       \E g1 \in (IF ok THEN GapLengths ELSE {Period}) :
       \E g2 \in (IF ok THEN GapLengths ELSE {Period}) :
       \E desc \in (IF ok THEN BOOLEAN ELSE {FALSE}) :
          LET dps == Datapoints(n, base, a, g1, g2)
          IN  Evaluate(launch,
                       IF ok THEN OkResponse(IF desc THEN Reverse(dps) ELSE dps)
                       ELSE ErrorResponse)

\* Lines 81-83: shutdown_instance on the next candidate.
ShutdownInstance ==
    /\ pc = "shutdown"
    /\ Len(shutdown_results) < Len(shutdown_candidates)
    /\ \E stop \in CallOutcomes :
          LET instance == shutdown_candidates[Len(shutdown_results) + 1]
              r == shutdown_instance(instance, DRY_RUN, stop)
          IN  /\ shutdown_results' = Append(shutdown_results, r.outcome)
              /\ calls' = calls
                    \cup (IF r.stopped
                          THEN {<<"stop_instances", instance.InstanceId>>}
                          ELSE {})
              /\ error_log' = error_log
                    \cup (IF r.error
                          THEN {<<"shutdown_instance", instance.InstanceId>>}
                          ELSE {})
    /\ UNCHANGED << config, pc, instances, idx, skipped_instances,
                    shutdown_candidates, response, monitoring_enabled, eval >>

\* Lines 85-100: the success summary is returned.
Respond ==
    /\ pc = "shutdown"
    /\ Len(shutdown_results) = Len(shutdown_candidates)
    /\ response' = SuccessResponse(instances, skipped_instances,
                                   shutdown_results, DRY_RUN)
    /\ pc' = "done"
    /\ UNCHANGED << config, instances, idx, skipped_instances,
                    shutdown_candidates, shutdown_results, monitoring_enabled,
                    eval, calls, error_log >>

Next ==
    \/ GetRunningInstances
    \/ InventoryFailure
    \/ SkipInstance
    \/ EnableMonitoring
    \/ HandlerIdle
    \/ ShutdownInstance
    \/ Respond

Spec == Init /\ [][Next]_vars


(* -------------- the idle evaluation on its own, all inputs ------------- *)

\* lambda_handler about to evaluate the only instance of the inventory, an
\* eligible one, with ENABLE_DETAILED_MONITORING off.
InitIdle ==
    /\ DRY_RUN \in BOOLEAN
    /\ ENABLE_DETAILED_MONITORING = FALSE
    /\ pc = "check_cpu"
    /\ instances = << [InstanceId |-> 1, InstanceType |-> <<"t", "3">>,
                       Tags |-> << >>] >>
    /\ idx = 1
    /\ skipped_instances = << >>
    /\ shutdown_candidates = << >>
    /\ shutdown_results = << >>
    /\ response = NoResponse
    /\ monitoring_enabled = FALSE
    /\ eval = NoEval
    /\ calls = {}
    /\ error_log = {}

NextIdle ==
    \/ FullIdle
    \/ ShutdownInstance
    \/ Respond

SpecIdle == InitIdle /\ [][NextIdle]_vars


(* ------------------------------ properties ----------------------------- *)

CandidateIds ==
    {shutdown_candidates[i].InstanceId : i \in 1..Len(shutdown_candidates)}

ResultIds == {shutdown_results[i].instance_id : i \in 1..Len(shutdown_results)}

SkippedIds ==
    {skipped_instances[i].instance_id : i \in 1..Len(skipped_instances)}

Called(name, id) == <<name, id>> \in calls

Logged(where, id) == <<where, id>> \in error_log

\* No stop outcome of any kind exists for the instance.
NeverStopped(id) ==
    /\ id \notin CandidateIds
    /\ id \notin ResultIds
    /\ ~Called("stop_instances", id)

\* is_instance_idle has run on some instance (eval holds its activation).
Evaluated == eval.instance_id # 0

\* The instance type begins with p or g in either letter case.
ExcludedFamily(instance) ==
    /\ Len(instance.InstanceType) >= 1
    /\ instance.InstanceType[1] \in {"p", "P", "g", "G"}

\* The instance carries a tag Shutdown whose value is "no" in any letter case.
OptedOut(instance) ==
    \E k \in 1..Len(instance.Tags) :
        /\ instance.Tags[k].Key = "Shutdown"
        /\ instance.Tags[k].Value \in
             { <<"n", "o">>, <<"N", "o">>, <<"n", "O">>, <<"N", "O">> }

\* The record skipped_instances holds for the instance, if any.
SkipRecords(list, id) == {i \in 1..Len(list) : list[i].instance_id = id}

\* The consecutive differences above 360 seconds of a sorted sample list.
BigGaps(dps) ==
    {i \in 2..Len(dps) : dps[i].Timestamp - dps[i-1].Timestamp > 360}

\* The only difference above 360 seconds is one of g seconds.
SingleGap(dps, g) ==
    /\ Cardinality(BigGaps(dps)) = 1
    /\ \A i \in BigGaps(dps) : dps[i].Timestamp - dps[i-1].Timestamp = g

\* The samples are in timestamp order.
IsSorted(dps) ==
    \A i \in 2..Len(dps) : dps[i-1].Timestamp <= dps[i].Timestamp

\* Every sample of positions lo..hi is at or below 1.0 percent.
AllAtOrBelow(dps, lo, hi) ==
    \A i \in lo..hi : i >= 1 => dps[i].Average <= 10

\* C1: an instance is never judged idle, and no stop outcome is produced for
\* it, when its telemetry query returned fewer than 32 samples (zero
\* included), nor when the eligibility filter returned a skip reason for it.
C1_NoIdleVerdictWithoutSamples ==
    /\ (Evaluated /\ Len(eval.datapoints) < 32)
          => (~eval.result /\ NeverStopped(eval.instance_id))
    /\ \A i \in 1..Len(instances) :
          (ExcludedFamily(instances[i]) \/ OptedOut(instances[i]))
             => (/\ NeverStopped(instances[i].InstanceId)
                 /\ eval.instance_id # instances[i].InstanceId)

\* A finished run in which one instance was skipped and another returned 31
\* samples, all at the threshold, and was not judged idle.
C1_Witness ==
    /\ pc = "done"
    /\ Len(skipped_instances) >= 1
    /\ eval.queried /\ eval.telemetry_ok
    /\ Len(eval.datapoints) = 31
    /\ AllAtOrBelow(eval.datapoints, 1, 31)
    /\ ~eval.result

\* C2: a running instance of an excluded family (p or g, any case), or
\* tagged Shutdown=no (any case), is skipped: once the loop has passed it,
\* skipped_instances holds its record with the reason (the family reason
\* first), and no monitoring request, wait, telemetry query or stop command
\* is ever issued for it.
C2_ExcludedAlwaysSkipped ==
    \A i \in 1..Len(instances) :
       LET instance == instances[i]
           id == instance.InstanceId
           recs == SkipRecords(skipped_instances, id)
       IN  (ExcludedFamily(instance) \/ OptedOut(instance)) =>
             /\ \A name \in {"monitor_instances", "sleep",
                             "get_metric_statistics", "stop_instances"} :
                   ~Called(name, id)
             /\ NeverStopped(id)
             /\ eval.instance_id # id
             /\ (idx > i \/ pc \in {"shutdown", "done"}) =>
                   /\ Cardinality(recs) = 1
                   /\ \A k \in recs :
                        /\ skipped_instances[k].instance_type = instance.InstanceType
                        /\ IF ExcludedFamily(instance)
                           THEN /\ Len(skipped_instances[k].reason) = 3
                                /\ skipped_instances[k].reason =
                                     <<"Instance type ", instance.InstanceType,
                                       " is excluded (P/G type)">>
                           ELSE skipped_instances[k].reason =
                                   <<"Instance has 'Shutdown=No' tag">>
             /\ (pc = "done" /\ response.statusCode = 200) =>
                   response.body.skipped_instances = skipped_instances

\* A finished run that skipped an upper-case P instance for its family and
\* an instance tagged Shutdown=nO for its tag.
C2_Witness ==
    /\ pc = "done"
    /\ Len(instances) = 2
    /\ \E i, j \in 1..2 :
          /\ instances[i].InstanceType = <<"P", "3">>
          /\ ~ExcludedFamily(instances[j])
          /\ TagsGet(instances[j].Tags, "Shutdown", None) = <<"n", "O">>
    /\ Len(skipped_instances) = 2


\* The evaluation got a telemetry response that passed the launch-time and
\* minimum-count checks.
EnoughSamples ==
    /\ Evaluated /\ eval.queried /\ eval.telemetry_ok
    /\ IsSorted(eval.datapoints)
    /\ Len(eval.datapoints) >= 32

\* The samples the classification looks at: the most recent 36.
Recent36(dps) ==
    IF Len(dps) > 36 THEN SubSeq(dps, Len(dps) - 35, Len(dps)) ELSE dps

\* The verdict the threshold alone gives: every one of the most recent 36
\* samples at or below 1.0 percent.
ThresholdVerdict(dps) ==
    \A i \in 1..Len(Recent36(dps)) : Recent36(dps)[i].Average <= 10

\* C3 as stated: with enough samples, a single gap of 700 seconds is
\* accepted (the threshold alone decides) and a single gap of 1000 seconds is
\* rejected (not idle, not stopped).
C3_Original ==
    /\ (EnoughSamples /\ SingleGap(eval.datapoints, 700))
          => (eval.result = ThresholdVerdict(eval.datapoints))
    /\ (EnoughSamples /\ SingleGap(eval.datapoints, 1000))
          => (~eval.result /\ NeverStopped(eval.instance_id))

\* C3 amended: the recorded gaps themselves, not their excess over the
\* cadence, are summed against the 600-second allowance.  With enough
\* samples, a single gap of at most 600 seconds is accepted (the threshold
\* alone decides); a single gap of 700 or of 1000 seconds is rejected (not
\* idle, not stopped).
C3_GapTolerance ==
    /\ \A g \in {400, 600} :
          (EnoughSamples /\ SingleGap(eval.datapoints, g))
             => (eval.result = ThresholdVerdict(eval.datapoints))
    /\ \A g \in {700, 1000} :
          (EnoughSamples /\ SingleGap(eval.datapoints, g))
             => (~eval.result /\ NeverStopped(eval.instance_id))

\* A finished run whose only instance returned 36 samples, all at or below
\* the threshold, with a single gap of 700 seconds, and was not judged idle.
C3_Witness ==
    /\ pc = "done"
    /\ EnoughSamples
    /\ SingleGap(eval.datapoints, 700)
    /\ ThresholdVerdict(eval.datapoints)
    /\ ~eval.result

\* The sum of the differences above 360 seconds.
RECURSIVE GapSum(_, _)
GapSum(dps, i) ==
    IF i < 2 THEN 0
    ELSE GapSum(dps, i - 1)
           + (IF dps[i].Timestamp - dps[i-1].Timestamp > 360
              THEN dps[i].Timestamp - dps[i-1].Timestamp ELSE 0)

\* The evaluation got a response that passed the launch-time, minimum-count
\* and gap checks.
PassedChecks ==
    /\ EnoughSamples
    /\ GapSum(eval.datapoints, Len(eval.datapoints)) <= 600

\* C4 as stated: for a sample set of any size that passed the checks, every
\* Average equal to the threshold gives idle, and one Average above the
\* threshold gives active.
C4_Original ==
    PassedChecks =>
       /\ (\A i \in 1..Len(eval.datapoints) : eval.datapoints[i].Average = 10)
             => eval.result
       /\ (\E i \in 1..Len(eval.datapoints) : eval.datapoints[i].Average > 10)
             => ~eval.result

\* C4 amended: for a sample set that passed the checks, every Average equal
\* to the threshold gives idle; one Average above the threshold among the
\* most recent 36 samples gives active; a sample above the threshold that is
\* older than the most recent 36 is trimmed away and does not prevent idle.
C4_StrictClassification ==
    PassedChecks =>
       LET dps == eval.datapoints
           first == IF Len(dps) > 36 THEN Len(dps) - 35 ELSE 1
       IN  /\ (\A i \in 1..Len(dps) : dps[i].Average = 10) => eval.result
           /\ (\E i \in first..Len(dps) : dps[i].Average > 10) => ~eval.result
           /\ (\A i \in first..Len(dps) : dps[i].Average <= 10) => eval.result

\* An evaluation of 37 samples that passed the checks, the oldest one above
\* the threshold and the most recent 36 equal to it, judged idle.
C4_Witness ==
    /\ PassedChecks
    /\ Len(eval.datapoints) = 37
    /\ eval.datapoints[1].Average > 10
    /\ \A i \in 2..37 : eval.datapoints[i].Average = 10
    /\ eval.result

\* C5: an instance launched less than 3.5 hours (12600 seconds) ago is
\* judged not idle without any telemetry query being issued for it, and it
\* is not stopped in that run.
C5_LaunchFloor ==
    (Evaluated /\ eval.launch.status = "ok" /\ eval.launch.age < 12600) =>
       /\ ~eval.result
       /\ ~eval.queried
       /\ ~Called("get_metric_statistics", eval.instance_id)
       /\ NeverStopped(eval.instance_id)
       /\ ~Logged("is_instance_idle", eval.instance_id)

\* A finished run whose last evaluated instance was launched one hour ago.
C5_Witness ==
    /\ pc = "done"
    /\ Evaluated
    /\ eval.launch = LaunchOutcome("ok", 3600)
    /\ ~eval.result


\* The run has returned the success summary.
Succeeded == pc = "done" /\ response.statusCode = 200

\* The run has returned the top-level failure result.
Failed ==
    /\ pc = "done"
    /\ response.statusCode = 500
    /\ response.body.message = "EC2 auto-shutdown failed"

\* The positions of the outcome records for the instance in a result list.
Outcomes(list, id) == {k \in 1..Len(list) : list[k].instance_id = id}

\* C6: in dry-run mode stop_instances is never issued, and the returned
\* summary holds, for every instance judged idle, a simulated "would be shut
\* down" outcome with action dry_run, and echoes dry_run = true.
C6_DryRunNeverStops ==
    DRY_RUN =>
       /\ \A i \in 1..Len(instances) :
             ~Called("stop_instances", instances[i].InstanceId)
       /\ Succeeded =>
             /\ response.body.dry_run = TRUE
             /\ (Evaluated /\ eval.result) =>
                   Outcomes(response.body.shutdown_results, eval.instance_id) # {}
             /\ \A id \in CandidateIds :
                   /\ Outcomes(response.body.shutdown_results, id) # {}
                   /\ \A k \in Outcomes(response.body.shutdown_results, id) :
                        LET r == response.body.shutdown_results[k]
                        IN  /\ r.action = "dry_run"
                            /\ r.status = "success"
                            /\ r.message = "Would be shut down (dry run mode)"

\* A finished dry run that judged two instances idle.
C6_Witness ==
    /\ DRY_RUN
    /\ Succeeded
    /\ Len(shutdown_candidates) = 2
    /\ response.body.instances_shutdown = 2

\* The inventory query failed in this run.
InventoryFailed == Logged("get_running_instances", 0)

\* The last telemetry query failed.
TelemetryFailed == Evaluated /\ eval.queried /\ ~eval.telemetry_ok

\* C7 as stated: a failure of the inventory query or of a telemetry query
\* makes lambda_handler return the top-level failure result.
C7_Original ==
    (pc = "done" /\ (InventoryFailed \/ TelemetryFailed)) => Failed

\* C7 amended: a failure of the inventory query makes lambda_handler return
\* the top-level failure result (statusCode 500); a failure of a
\* telemetry query is caught and logged by is_instance_idle, the instance is
\* judged not idle and is not stopped, and the run still returns the success
\* summary.
C7_OnlyInventoryFailureAborts ==
    /\ (pc = "done" /\ InventoryFailed) => Failed
    /\ TelemetryFailed =>
          /\ ~eval.result
          /\ NeverStopped(eval.instance_id)
          /\ Logged("is_instance_idle", eval.instance_id)
          /\ pc = "done" => Succeeded

\* A finished run whose last telemetry query failed and which returned the
\* success summary.
C7_Witness ==
    /\ TelemetryFailed
    /\ Succeeded
    /\ response.body.total_instances_evaluated = 2

\* C8: a failing stop command never aborts the batch: in a finished run
\* without dry-run a stop was attempted for every idle instance, every
\* instance whose stop failed has an outcome with status error and every
\* other one an outcome with status success, and the run returned the
\* success summary.
C8_StopFailureIsLocal ==
    /\ (pc = "done" /\ ~InventoryFailed) => Succeeded
    /\ (Succeeded /\ ~DRY_RUN) =>
          /\ Len(response.body.shutdown_results) = Len(shutdown_candidates)
          /\ \A i \in 1..Len(shutdown_candidates) :
                LET id == shutdown_candidates[i].InstanceId
                    r == response.body.shutdown_results[i]
                IN  /\ Called("stop_instances", id)
                    /\ r.instance_id = id
                    /\ r.action = "shutdown"
                    /\ r.status =
                         (IF Logged("shutdown_instance", id)
                          THEN "error" ELSE "success")

\* A finished run in which the first of two stops failed and the second
\* succeeded.
C8_Witness ==
    /\ Succeeded
    /\ ~DRY_RUN
    /\ Len(shutdown_results) = 2
    /\ shutdown_results[1].status = "error"
    /\ shutdown_results[2].status = "success"
    /\ Called("stop_instances", shutdown_results[2].instance_id)

\* The returned result holds a failure record for the instance.
FailureReported(id) ==
    /\ Succeeded
    /\ \E k \in Outcomes(response.body.shutdown_results, id) :
          response.body.shutdown_results[k].status = "error"

\* The returned summary holds a reason for every skipped instance.
SkipsReported ==
    \A i \in 1..Len(instances) :
       (ExcludedFamily(instances[i]) \/ OptedOut(instances[i])) =>
          \E k \in Outcomes(response.body.skipped_instances,
                            instances[i].InstanceId) :
             response.body.skipped_instances[k].reason # None

\* C9 as stated: the returned result holds a reason for every skipped
\* instance and a record for every failure of the run: monitoring-enable,
\* telemetry and stop failures.
C9_Original ==
    Succeeded =>
       /\ SkipsReported
       /\ \A i \in 1..Len(instances) :
             LET id == instances[i].InstanceId
             IN  (\/ Logged("enable_detailed_monitoring_if_needed", id)
                  \/ Logged("is_instance_idle", id)
                  \/ Logged("shutdown_instance", id))
                    => FailureReported(id)

\* C9 amended: every run returns a structured result: the top-level failure
\* result with the error when the inventory query failed, otherwise the
\* success summary, which holds a reason for every skipped instance and an
\* outcome with status error for every failed stop.  Monitoring-enable and
\* telemetry failures are only logged: the summary holds no failure record
\* for them.
C9_ResultReportsSkipsAndStopFailures ==
    /\ pc = "done" => (Succeeded \/ (Failed /\ response.body.error # ""))
    /\ Succeeded =>
          /\ SkipsReported
          /\ response.body.instances_skipped = Len(response.body.skipped_instances)
          /\ \A i \in 1..Len(instances) :
                LET id == instances[i].InstanceId
                IN  FailureReported(id) <=> Logged("shutdown_instance", id)

\* A finished run with a skipped instance and an instance whose monitoring
\* request failed and whose stop failed: the summary reports the skip and
\* the stop failure.
C9_Witness ==
    /\ Succeeded
    /\ Len(response.body.skipped_instances) = 1
    /\ \E i \in 1..Len(instances) :
          /\ Logged("enable_detailed_monitoring_if_needed", instances[i].InstanceId)
          /\ Logged("shutdown_instance", instances[i].InstanceId)
          /\ FailureReported(instances[i].InstanceId)

\* C10: a wait happens for an instance only when the enable-monitoring
\* command was issued for it in this run.
C10_WaitOnlyAfterRequest ==
    \A i \in 1..Len(instances) :
       Called("sleep", instances[i].InstanceId)
          => Called("monitor_instances", instances[i].InstanceId)

====
